---- MODULE Spec2Model ----
(***************************************************************************)
(* GeriCare Supplier: the session store (useAuthStore), the route table    *)
(* (AppRoutes, ProtectedRoute) and the embedded-page controller            *)
(* (DashboardPage) as one state machine.                                   *)
(*                                                                         *)
(* One step of the machine is one task of the UI event loop: a user or     *)
(* history navigation together with the render and the effects it causes,  *)
(* the arrival of a response, the firing of a timer.  State updates made   *)
(* in one task are batched, so a step shows only their net result.         *)
(***************************************************************************)
EXTENDS Integers, Sequences, FiniteSets, TLC

\* JavaScript null, for the fields that hold a string or null.
Null == "<null>"

-----------------------------------------------------------------------------
\* Bounds of the model.

\* Content loads (fetchPageContent calls) that may be pending at once, with
\* the session fixed (Spec) ...
MaxInFlight == 2
\* ... and with logins and logouts going on (SessionSpec).
MaxSessionInFlight == 1
\* login() calls that may be pending at once.
MaxLogins == 1
\* logout() calls that may be pending at once.
MaxLogouts == 2

-----------------------------------------------------------------------------
\* Program constants.

API_BASE == "https://gcdev.m.frappe.cloud"
TOKEN == "b5a11fd3272c41d:b107017770524e7"
SKIP_ROUTES == {"/", "/login"}
\* await new Promise((resolve) => setTimeout(resolve, 50))
SettleDelay == 50
\* setTimeout(() => { setMainContent ... }, 100)
PublishDelay == 100
\* Time is observed at the granularity of the shorter delay.
TickLen == SettleDelay

DEFAULT_HOME == "/me"
DASHBOARD == "/dashboard"
LOGIN == "/login"

-----------------------------------------------------------------------------
\* The environment: locations, backend documents, responses.

Loc(p) == [pathname |-> p, search |-> "", hash |-> ""]

\* Locations the user reaches by a link, the address bar or the history.
UserLocations ==
    { Loc("/"), Loc(LOGIN), Loc(DASHBOARD),
      [pathname |-> "/a", search |-> "?q=1", hash |-> "#top"] }

\* Locations at which the application is opened.
EntryLocations == { Loc("/"), Loc(LOGIN), Loc(DASHBOARD) }

\* data.home_page of a login response: absent, or a path.
BackendHomePages == {Null, DASHBOARD}

\* The address of the one user of the model.
USER == "m@example.com"

\* A navigation anchor of a backend document: its href attribute (empty when
\* absent) and its text, in pieces.
Anchor(h, t) == [href |-> h, text |-> t, active |-> FALSE]

\* An element of the main subtree of a document, in document order: its tag,
\* its src and style attributes in pieces (empty when absent) and its text.
Element(tag, src, style, text) ==
    [tag |-> tag, src |-> src, style |-> style, text |-> text]

\* The backend's document for a URL: the texts of its <style> blocks, the
\* hrefs of its stylesheet links, the elements of its main subtree and the
\* anchors of its navigation region; `fails` tells whether the extraction of
\* its content throws.
Page(fullUrl) ==
    [ fails  |-> FALSE,
      styles |-> << <<"/* css of " \o fullUrl \o " */">> >>,
      links  |-> <<>>,
      main   |-> << Element("h1", <<>>, <<>>, fullUrl) >>,
      nav    |-> << Anchor(<<"/", "a", "?q=1#top">>, <<"A">>),
                    Anchor(<<"/", "newsletter", "s", "/", "1">>, <<"Newsletter">>),
                    Anchor(<<DASHBOARD>>, <<" ", "Dashboard", "\n">>) >> ]

\* A Response: ok with the document as body, or a status outside 2xx.
OkResponse(fullUrl) ==
    [ok |-> TRUE, status |-> "200", statusText |-> "OK", body |-> Page(fullUrl)]
ErrorResponse(code, text) ==
    [ok |-> FALSE, status |-> code, statusText |-> text, body |-> Page("")]
Responses(fullUrl) ==
    { OkResponse(fullUrl),
      ErrorResponse("404", "Not Found"),
      ErrorResponse("403", "Forbidden") }

-----------------------------------------------------------------------------
VARIABLES
    \* useAuthStore
    isAuthenticated, user, homePage, token, storeError,
    logins,          \* login() calls awaiting their response
    logouts,         \* logout() calls awaiting their response
    \* router
    location,
    \* SigninCard
    signinLoading,   \* SigninCard.isLoading of the mounted card
    \* DashboardPage
    mounted,         \* a DashboardPage instance is mounted
    sidebarItems, mainContent, contentStyles, isLoading, isContentLoading, error,
    \* the pending fetchPageContent calls of the mounted instance
    fetching,        \* awaiting fetchWithAuth or response.text(), in call order
    settling,        \* awaiting the 50 ms timer, in the order the timers were set
    publishing,      \* awaiting the 100 ms timer, in the order the timers were set
    sideLoads,       \* the pending fetchSidebar calls of the mounted instance
    listeners,       \* click listeners on the mounted content container
    recent,          \* history: what the fetch of the latest route change returned
    probe            \* history: the last click or helper call and what it did

storeVars == <<isAuthenticated, user, homePage, token, storeError, logins, logouts>>
programVars == <<isAuthenticated, user, homePage, token, storeError, logins, logouts,
                 location, signinLoading, mounted,
                 sidebarItems, mainContent, contentStyles, isLoading,
                 isContentLoading, error, fetching, settling, publishing,
                 sideLoads, listeners, recent>>
dashVars == <<sidebarItems, mainContent, contentStyles, isLoading, isContentLoading,
              error, fetching, settling, publishing, sideLoads, recent>>
outerVars == <<storeVars, location, signinLoading, mounted, probe>>
vars == <<outerVars, dashVars, listeners>>

-----------------------------------------------------------------------------
\* Pure helpers of index.tsx.  Strings whose characters the code inspects are
\* kept as the sequence of their pieces, cut where the code looks: every
\* prefix, suffix or substring it tests for is a piece or a run of pieces.
\* Flat is the string itself.
RECURSIVE Flat(_)
Flat(t) == IF t = <<>> THEN "" ELSE Head(t) \o Flat(Tail(t))

Last(t) == t[Len(t)]
ButLast(t) == SubSeq(t, 1, Len(t) - 1)
StartsWith(t, piece) == t # <<>> /\ Head(t) = piece
EndsWith(t, piece) == t # <<>> /\ Last(t) = piece

\* \s
IsSpace(p) == p \in {" ", "\n"}

\* The i flag: the pieces are compared in lower case.
Lower(p) ==
    CASE p = "TRANSFORM" -> "transform"
      [] p = "ZOOM" -> "zoom"
      [] p = "SCALE(" -> "scale("
      [] p \in {"Newsletter", "NEWSLETTER"} -> "newsletter"
      [] OTHER -> p
LowerSeq(t) == [k \in 1..Len(t) |-> Lower(t[k])]

\* text.includes(run)
Includes(t, run) ==
    \E k \in 1..(Len(t) - Len(run) + 1) : SubSeq(t, k, k + Len(run) - 1) = run

\* textContent.trim()
RECURSIVE TrimStart(_)
TrimStart(t) == IF t # <<>> /\ IsSpace(Head(t)) THEN TrimStart(Tail(t)) ELSE t
RECURSIVE TrimEnd(_)
TrimEnd(t) == IF t # <<>> /\ IsSpace(Last(t)) THEN TrimEnd(ButLast(t)) ELSE t
Trim(t) == TrimEnd(TrimStart(t))

\* extractSidebarItems: the anchors of the navigation region with an href and
\* a text, the newsletter link left out.
IsNewsletter(a) ==
    \/ Includes(LowerSeq(Trim(a.text)), <<"newsletter">>)
    \/ Includes(a.href, <<"/", "newsletter", "s">>)
KeepAnchor(a) == a.href # <<>> /\ Trim(a.text) # <<>> /\ ~IsNewsletter(a)
extractSidebarItems(html) ==
    LET kept == SelectSeq(html.nav, KeepAnchor)
    IN  [i \in 1..Len(kept) |->
            [href |-> Flat(kept[i].href), text |-> Flat(Trim(kept[i].text)),
             isActive |-> kept[i].active]]

\* API_BASE, in pieces.
ApiBasePieces == <<"http", "s://gcdev.m.frappe.cloud">>

\* Variant: the backend origin is put in front of every URL.
fixRelativeUrlAlways(url) ==
    ApiBasePieces \o (IF StartsWith(url, "/") THEN url ELSE <<"/">> \o url)

fixRelativeUrl(url) ==
    IF StartsWith(url, "http") \/ StartsWith(url, "data:") THEN url
    ELSE ApiBasePieces \o (IF StartsWith(url, "/") THEN url ELSE <<"/">> \o url)

normalizePath(path) ==
    IF EndsWith(path, "/") /\ Len(Flat(path)) > 1 THEN ButLast(path) ELSE path

\* Variant: only byte-equal paths match.
matchesPathExact(linkPath, currentPath) == Flat(linkPath) = Flat(currentPath)

matchesPath(linkPath, currentPath) ==
    \/ Flat(linkPath) = Flat(currentPath)
    \/ Flat(linkPath) = Flat(currentPath) \o "/"
    \/ Flat(currentPath) = Flat(linkPath) \o "/"
    \/ Flat(normalizePath(linkPath)) = Flat(normalizePath(currentPath))

\* The first position from j on that holds no space: \s* ends before it.
RECURSIVE SkipSpaces(_, _)
SkipSpaces(t, j) ==
    IF j <= Len(t) /\ IsSpace(t[j]) THEN SkipSpaces(t, j + 1) ELSE j

\* The first position from j on that holds the piece `stop`: [^stop]+ ends
\* before it.
RECURSIVE SkipUntil(_, _, _)
SkipUntil(t, j, stop) ==
    IF j <= Len(t) /\ t[j] # stop THEN SkipUntil(t, j + 1, stop) ELSE j

\* /name\s*:[^;]+;?/i at position i: the position of the last piece matched,
\* or 0 when there is no match at i.
DeclMatchEnd(t, i, name) ==
    IF i + Len(name) - 1 > Len(t) THEN 0
    ELSE IF LowerSeq(SubSeq(t, i, i + Len(name) - 1)) # name THEN 0
    ELSE LET c == SkipSpaces(t, i + Len(name))
             v == SkipUntil(t, c + 1, ";")
         IN  IF c > Len(t) THEN 0
             ELSE IF t[c] # ":" THEN 0
             ELSE IF v = c + 1 THEN 0
             ELSE IF v <= Len(t) THEN v ELSE Len(t)

\* .replace(/name\s*:[^;]+;?/gi, ''), from position i on.
RECURSIVE ReplaceDecl(_, _, _)
ReplaceDecl(t, i, name) ==
    IF i > Len(t) THEN <<>>
    ELSE IF DeclMatchEnd(t, i, name) = 0
         THEN <<t[i]>> \o ReplaceDecl(t, i + 1, name)
         ELSE ReplaceDecl(t, DeclMatchEnd(t, i, name) + 1, name)

\* /scale\([^)]+\)/i at position i: the position of the ")" matched, or 0.
ScaleMatchEnd(t, i) ==
    IF Lower(t[i]) # "scale(" THEN 0
    ELSE LET v == SkipUntil(t, i + 1, ")")
         IN  IF v = i + 1 \/ v > Len(t) THEN 0 ELSE v

\* .replace(/scale\([^)]+\)/gi, 'scale(1)'), from position i on.
RECURSIVE ReplaceScale(_, _)
ReplaceScale(t, i) ==
    IF i > Len(t) THEN <<>>
    ELSE IF ScaleMatchEnd(t, i) = 0
         THEN <<t[i]>> \o ReplaceScale(t, i + 1)
         ELSE <<"scale(", "1", ")">> \o ReplaceScale(t, ScaleMatchEnd(t, i) + 1)

sanitizeStyles(styleContent) ==
    LET s1 == ReplaceDecl(styleContent, 1, <<"transform">>)
        s2 == ReplaceDecl(s1, 1, <<"-webkit-", "transform">>)
        s3 == ReplaceDecl(s2, 1, <<"-moz-", "transform">>)
        s4 == ReplaceDecl(s3, 1, <<"-ms-", "transform">>)
        s5 == ReplaceDecl(s4, 1, <<"-o-", "transform">>)
        s6 == ReplaceDecl(s5, 1, <<"zoom">>)
    IN  ReplaceScale(s6, 1)

\* /url\(['"]?([^'")]+)['"]?\)/ at position i: where the captured URL starts,
\* where it ends, and the position of the ")" matched (0 when no match at i).
IsQuote(p) == p \in {"'", "\""}
RECURSIVE SkipUrl(_, _)
SkipUrl(t, j) ==
    IF j <= Len(t) /\ ~IsQuote(t[j]) /\ t[j] # ")" THEN SkipUrl(t, j + 1) ELSE j
UrlStart(t, i) == IF i + 1 <= Len(t) /\ IsQuote(t[i + 1]) THEN i + 2 ELSE i + 1
UrlMatchEnd(t, i) ==
    IF t[i] # "url(" THEN 0
    ELSE LET b == UrlStart(t, i)
             v == SkipUrl(t, b)
             c == IF v <= Len(t) /\ IsQuote(t[v]) THEN v + 1 ELSE v
         IN  IF v = b \/ c > Len(t) THEN 0
             ELSE IF t[c] # ")" THEN 0 ELSE c

\* style.replace(/url\(...\)/g, (_match, url) => `url('${fixRelativeUrl(url)}')`),
\* from position i on.
RECURSIVE ReplaceUrl(_, _)
ReplaceUrl(t, i) ==
    IF i > Len(t) THEN <<>>
    ELSE IF UrlMatchEnd(t, i) = 0
         THEN <<t[i]>> \o ReplaceUrl(t, i + 1)
         ELSE <<"url(", "'">>
              \o fixRelativeUrl(SubSeq(t, UrlStart(t, i), SkipUrl(t, UrlStart(t, i)) - 1))
              \o <<"'", ")">>
              \o ReplaceUrl(t, UrlMatchEnd(t, i) + 1)

\* The markup of an element (innerHTML writes no end tag for an img).
AttrPieces(name, v) ==
    IF v = <<>> THEN <<>> ELSE <<" " \o name \o "=\"">> \o v \o <<"\"">>
ElementPieces(e) ==
    <<"<" \o e.tag>> \o AttrPieces("src", e.src) \o AttrPieces("style", e.style)
    \o <<">">>
    \o (IF e.tag = "img" THEN <<>> ELSE <<e.text, "</" \o e.tag \o ">">>)
RECURSIVE ElementsPieces(_)
ElementsPieces(es) ==
    IF es = <<>> THEN <<>> ELSE ElementPieces(Head(es)) \o ElementsPieces(Tail(es))

\* removeScripts: every script element of the subtree is taken out.
removeScripts(es) == SelectSeq(es, LAMBDA e : e.tag # "script")

\* The src of an img and the url(...) of a style attribute, made absolute.
FixImage(e) ==
    IF e.tag = "img" /\ e.src # <<>>
    THEN [e EXCEPT !.src = fixRelativeUrl(e.src)] ELSE e
FixInlineStyle(e) ==
    IF e.style # <<>> THEN [e EXCEPT !.style = ReplaceUrl(e.style, 1)] ELSE e
FixElements(es) == [k \in 1..Len(es) |-> FixInlineStyle(FixImage(es[k]))]

\* styles += sanitizeStyles(style.innerHTML) + '\n', for each <style> block.
RECURSIVE StyleBlocks(_)
StyleBlocks(bs) ==
    IF bs = <<>> THEN <<>>
    ELSE sanitizeStyles(Head(bs)) \o <<"\n">> \o StyleBlocks(Tail(bs))

\* styles += `@import url('${fixRelativeUrl(href)}');\n`, for each stylesheet
\* link that has an href.
RECURSIVE ImportRules(_)
ImportRules(hs) ==
    IF hs = <<>> THEN <<>>
    ELSE (IF Head(hs) = <<>> THEN <<>>
          ELSE <<"@import ", "url(", "'">> \o fixRelativeUrl(Head(hs))
               \o <<"'", ")", ";\n">>)
         \o ImportRules(Tail(hs))

\* The text of the document as the backend sent it.
RECURSIVE StyleTags(_)
StyleTags(bs) ==
    IF bs = <<>> THEN <<>>
    ELSE <<"<style>">> \o Head(bs) \o <<"</style>">> \o StyleTags(Tail(bs))
RECURSIVE LinkTags(_)
LinkTags(hs) ==
    IF hs = <<>> THEN <<>>
    ELSE <<"<link rel=\"stylesheet\"">> \o AttrPieces("href", Head(hs)) \o <<">">>
         \o LinkTags(Tail(hs))
RECURSIVE AnchorTags(_)
AnchorTags(as) ==
    IF as = <<>> THEN <<>>
    ELSE <<"<a">> \o AttrPieces("href", Head(as).href) \o <<">">> \o Head(as).text
         \o <<"</a>">> \o AnchorTags(Tail(as))
RawHtml(html) ==
    StyleTags(html.styles) \o LinkTags(html.links)
    \o <<"<nav>">> \o AnchorTags(html.nav) \o <<"</nav>">>
    \o <<"<main>">> \o ElementsPieces(html.main) \o <<"</main>">>

\* extractStylesAndContent, in pieces: the sanitized <style> blocks and the
\* @import rules, and the markup of the main subtree without its scripts and
\* with its URLs made absolute; the document itself and no styles when the
\* extraction throws.
ExtractedPieces(html) ==
    IF html.fails
    THEN [content |-> RawHtml(html), styles |-> <<>>]
    ELSE [content |-> ElementsPieces(FixElements(removeScripts(html.main))),
          styles  |-> StyleBlocks(html.styles) \o ImportRules(html.links)]

extractStylesAndContent(html) ==
    [content |-> Flat(ExtractedPieces(html).content),
     styles  |-> Flat(ExtractedPieces(html).styles)]

\* Variant: the path without its query and fragment.
CurrentPathnameOnly(loc) == loc.pathname

\* location.pathname + location.search + location.hash
CurrentPath(loc) == loc.pathname \o loc.search \o loc.hash

\* url.startsWith('http'): of the strings of the model, the backend's URLs.
StartsWithHttp(url) == \E l \in UserLocations : url = API_BASE \o CurrentPath(l)
FullUrl(url) == IF StartsWithHttp(url) THEN url ELSE API_BASE \o url

-----------------------------------------------------------------------------
\* DashboardPage as a value: the state of one mounted instance.

\* No click and no helper call observed yet.
NoProbe == [op |-> "none"]

NoFragment == [content |-> "", styles |-> ""]
NoRecent == [state |-> "none", fragment |-> NoFragment]

\* useState initial values.
InitialDash ==
    [ sidebarItems |-> <<>>, mainContent |-> "", contentStyles |-> "",
      isLoading |-> TRUE, isContentLoading |-> FALSE, error |-> Null,
      fetching |-> <<>>, settling |-> <<>>, publishing |-> <<>>,
      sideLoads |-> <<>>, recent |-> NoRecent,
      handler |-> Null, listeners |-> 0 ]

\* The state of the mounted instance; handleContentClick is a new function
\* whenever navigate is, and navigate is new at every pathname.
Dash ==
    [ sidebarItems |-> sidebarItems, mainContent |-> mainContent,
      contentStyles |-> contentStyles, isLoading |-> isLoading,
      isContentLoading |-> isContentLoading, error |-> error,
      fetching |-> fetching, settling |-> settling, publishing |-> publishing,
      sideLoads |-> sideLoads, recent |-> recent,
      handler |-> location.pathname, listeners |-> listeners ]

\* The content container (the div with ref={contentRef}) is rendered.
Container(d) == ~d.isLoading /\ d.error = Null /\ d.mainContent # ""

\* The click-listener effect after the render of d: when mainContent or
\* handleContentClick changed, its cleanup takes the listener off the element
\* it was put on and the listener is put on the container now rendered, if
\* any; otherwise a container that stays keeps what it has, and a container
\* rendered anew has none.
ClickListeners(d) ==
    IF d.mainContent # mainContent \/ d.handler # Dash.handler
    THEN (IF Container(d) THEN 1 ELSE 0)
    ELSE IF Container(Dash) /\ Container(d) THEN listeners ELSE 0

SetDash(d) ==
    LET next == d
    IN  /\ sidebarItems' = next.sidebarItems
        /\ mainContent' = next.mainContent
        /\ contentStyles' = next.contentStyles
        /\ isLoading' = next.isLoading
        /\ isContentLoading' = next.isContentLoading
        /\ error' = next.error
        /\ fetching' = next.fetching
        /\ settling' = next.settling
        /\ publishing' = next.publishing
        /\ sideLoads' = next.sideLoads
        /\ recent' = next.recent
        /\ listeners' = ClickListeners(next)

InFlight(d) == Len(d.fetching) + Len(d.settling) + Len(d.publishing)

\* History: every pending call is now superseded.
Superseded(q) == [k \in 1..Len(q) |-> [q[k] EXCEPT !.latest = FALSE]]

\* A pending call: `latest` is history, true of the call made by the most
\* recent route change.
FetchCall(fullUrl) == [url |-> fullUrl, stage |-> "fetch", latest |-> TRUE]

\* fetchPageContent, up to its first await.
fetchPageContent(d, url, tok) ==
    IF tok = Null
    THEN [d EXCEPT !.error = "No authentication token available"]
    ELSE [d EXCEPT
            !.isContentLoading = TRUE,
            !.error = Null,
            !.fetching = Append(Superseded(@), FetchCall(FullUrl(url))),
            !.settling = Superseded(@),
            !.publishing = Superseded(@),
            !.recent = [state |-> "pending", fragment |-> NoFragment]]

\* Variant: the effect without its token test.
SkipsLoadWithoutToken(currentPath, tok) == currentPath \in SKIP_ROUTES

\* The condition of the route-change effect under which it returns at once.
SkipsLoad(currentPath, tok) == currentPath \in SKIP_ROUTES \/ tok = Null

\* The effect "Load content based on route".
RouteEffect(d, loc, tok) ==
    IF SkipsLoad(CurrentPath(loc), tok) THEN d
    ELSE fetchPageContent(d, CurrentPath(loc), tok)

\* fetchSidebar, up to its first await.
fetchSidebar(d, hp, tok) ==
    IF hp = Null \/ tok = Null
    THEN [d EXCEPT
            !.error = IF hp # Null THEN "No authentication token available"
                      ELSE "No home page configured",
            !.isLoading = FALSE]
    ELSE [d EXCEPT
            !.isLoading = TRUE,
            !.error = Null,
            !.sideLoads = Append(@, [stage |-> "fetch", url |-> API_BASE \o hp])]

\* The first render of a DashboardPage and its effects, in source order.
Mount(loc, hp, tok) == RouteEffect(fetchSidebar(InitialDash, hp, tok), loc, tok)

-----------------------------------------------------------------------------
\* AppRoutes and ProtectedRoute: the element rendered at a location.

\* Variant: the dashboard routes without ProtectedRoute.
RouteElementUnprotected(loc, auth) ==
    IF loc.pathname = LOGIN THEN (IF auth THEN "navigate" ELSE "signin")
    ELSE IF loc.pathname = "/" THEN "navigate"
    ELSE "dashboard"

RouteElement(loc, auth) ==
    IF loc.pathname = LOGIN THEN (IF auth THEN "navigate" ELSE "signin")
    ELSE IF loc.pathname = "/" THEN "navigate"
    ELSE IF auth THEN "dashboard" ELSE "navigate"

OrDashboard(hp) == IF hp = Null THEN DASHBOARD ELSE hp

\* The target of the <Navigate> rendered at a location.
NavigateTarget(loc, auth, hp) ==
    IF loc.pathname = LOGIN THEN Loc(OrDashboard(hp))
    ELSE IF loc.pathname = "/"
         THEN (IF auth THEN Loc(OrDashboard(hp)) ELSE Loc(LOGIN))
         ELSE Loc(LOGIN)

\* The render that follows a change of location or session.  A mounted
\* DashboardPage is kept when the element stays the same, and its effects run
\* for the dependencies that changed; otherwise the instance is unmounted, and
\* what its pending calls do afterwards reaches no state.
Rendered(loc2, auth2, hp2, tok2) ==
    LET d1 == IF hp2 # homePage \/ tok2 # token
              THEN fetchSidebar(Dash, hp2, tok2) ELSE Dash
        d2 == IF loc2 # location \/ tok2 # token
              THEN RouteEffect(d1, loc2, tok2) ELSE d1
    IN  IF RouteElement(loc2, auth2) # "dashboard" THEN InitialDash
        ELSE IF mounted THEN [d2 EXCEPT !.handler = loc2.pathname]
        ELSE Mount(loc2, hp2, tok2)

Render(loc2, auth2, hp2, tok2) ==
    /\ mounted' = (RouteElement(loc2, auth2) = "dashboard")
    /\ SetDash(Rendered(loc2, auth2, hp2, tok2))
    /\ signinLoading' =
          (/\ RouteElement(loc2, auth2) = "signin"
           /\ RouteElement(location, isAuthenticated) = "signin"
           /\ signinLoading)

-----------------------------------------------------------------------------
\* The session persisted under 'auth-storage', merged over the defaults when
\* the store is created: nothing (or a logged-out session), a logged-in
\* session, or a logged-in session stored without its token or home page.
PersistedSessions ==
    { [isAuthenticated |-> FALSE, user |-> Null, homePage |-> Null, token |-> Null] }
    \cup [ isAuthenticated : {TRUE}, user : {USER},
           homePage : {Null, DEFAULT_HOME}, token : {Null, TOKEN} ]

FirstRender(l, s) ==
    IF RouteElement(l, s.isAuthenticated) = "dashboard"
    THEN Mount(l, s.homePage, s.token) ELSE InitialDash

Init ==
    \E s \in PersistedSessions, l \in EntryLocations :
        /\ isAuthenticated = s.isAuthenticated
        /\ user = s.user
        /\ homePage = s.homePage
        /\ token = s.token
        /\ storeError = Null
        /\ logins = 0
        /\ logouts = 0
        /\ location = l
        /\ signinLoading = FALSE
        /\ mounted = (RouteElement(l, s.isAuthenticated) = "dashboard")
        /\ sidebarItems = FirstRender(l, s).sidebarItems
        /\ mainContent = FirstRender(l, s).mainContent
        /\ contentStyles = FirstRender(l, s).contentStyles
        /\ isLoading = FirstRender(l, s).isLoading
        /\ isContentLoading = FirstRender(l, s).isContentLoading
        /\ error = FirstRender(l, s).error
        /\ fetching = FirstRender(l, s).fetching
        /\ settling = FirstRender(l, s).settling
        /\ publishing = FirstRender(l, s).publishing
        /\ sideLoads = FirstRender(l, s).sideLoads
        /\ recent = FirstRender(l, s).recent
        /\ listeners = 0
        /\ probe = NoProbe

-----------------------------------------------------------------------------
\* Router.

RedirectPending == RouteElement(location, isAuthenticated) = "navigate"

\* navigate(l): a sidebar link, a link of the fragment, the history.  A
\* <Navigate> that is rendered acts before the user can.
\* (cap: the bound on pending content loads.)
Navigate(l, cap) ==
    /\ ~RedirectPending
    /\ l # location
    /\ InFlight(Rendered(l, isAuthenticated, homePage, token)) <= cap
    /\ location' = l
    /\ Render(l, isAuthenticated, homePage, token)
    /\ UNCHANGED <<storeVars, probe>>

\* <Navigate to=... replace />
Redirect ==
    /\ RedirectPending
    /\ location' = NavigateTarget(location, isAuthenticated, homePage)
    /\ Render(NavigateTarget(location, isAuthenticated, homePage),
              isAuthenticated, homePage, token)
    /\ UNCHANGED <<storeVars, probe>>

-----------------------------------------------------------------------------
\* fetchPageContent after its first await.

Drop(q, j) == SubSeq(q, 1, j - 1) \o SubSeq(q, j + 1, Len(q))

\* History: the outcome of the call made by the most recent route change.
Note(d, call, st, frag) ==
    IF call.latest THEN [d EXCEPT !.recent = [state |-> st, fragment |-> frag]]
    ELSE d

\* Variant: the message without the status text.
StatusMessageCodeOnly(r) == "Failed to load page: " \o r.status

StatusMessage(r) == "Failed to load page: " \o r.status \o " " \o r.statusText

\* fetchWithAuth resolved with a status outside 2xx: the else branch.
ContentStatusError(d, i, r) ==
    [Note(d, d.fetching[i], "failed", NoFragment) EXCEPT
        !.error = StatusMessage(r),
        !.isContentLoading = FALSE,
        !.fetching = Drop(@, i)]

\* Variant: the catch block without setIsContentLoading(false).
ContentCatchStillLoading(d, i) ==
    [Note(d, d.fetching[i], "failed", NoFragment) EXCEPT
        !.error = "Failed to load page content. Please try again.",
        !.fetching = Drop(@, i)]

\* fetchWithAuth or response.text() rejected: the catch block.
ContentCatch(d, i) ==
    [Note(d, d.fetching[i], "failed", NoFragment) EXCEPT
        !.error = "Failed to load page content. Please try again.",
        !.isContentLoading = FALSE,
        !.fetching = Drop(@, i)]

\* A call waiting on a timer.
TimerCall(frag, ms, isLatest) == [fragment |-> frag, rem |-> ms, latest |-> isLatest]

\* Variant: the content load also takes the navigation entries of its document.
ContentExtractedWithSidebar(d, i, html) ==
    [Note(d, d.fetching[i], "ok", extractStylesAndContent(html)) EXCEPT
        !.sidebarItems = extractSidebarItems(html),
        !.fetching = Drop(@, i),
        !.settling = Append(@, TimerCall(extractStylesAndContent(html), SettleDelay,
                                         d.fetching[i].latest))]

\* response.text() resolved: the fragment is extracted and the 50 ms wait begins.
ContentExtracted(d, i, html) ==
    [Note(d, d.fetching[i], "ok", extractStylesAndContent(html)) EXCEPT
        !.fetching = Drop(@, i),
        !.settling = Append(@, TimerCall(extractStylesAndContent(html), SettleDelay,
                                         d.fetching[i].latest))]

\* The 50 ms timer fired: the styles are set and the 100 ms timer is started.
StylesPublished(d) ==
    [d EXCEPT
        !.contentStyles = Head(d.settling).fragment.styles,
        !.settling = Tail(@),
        !.publishing = Append(@, [Head(d.settling) EXCEPT !.rem = PublishDelay])]

\* Variant: the second timer publishes the content and leaves the flag set.
ContentPublishedStillLoading(d) ==
    [d EXCEPT
        !.mainContent = Head(d.publishing).fragment.content,
        !.publishing = Tail(@)]

\* The 100 ms timer fired.
ContentPublished(d) ==
    [d EXCEPT
        !.mainContent = Head(d.publishing).fragment.content,
        !.isContentLoading = FALSE,
        !.publishing = Tail(@)]

ContentResponse(i) ==
    /\ i \in 1..Len(fetching)
    /\ fetching[i].stage = "fetch"
    /\ \E r \in Responses(fetching[i].url) :
          SetDash(IF r.ok THEN [Dash EXCEPT !.fetching[i].stage = "text"]
                  ELSE ContentStatusError(Dash, i, r))
    /\ UNCHANGED outerVars

ContentReject(i) ==
    /\ i \in 1..Len(fetching)
    /\ SetDash(ContentCatch(Dash, i))
    /\ UNCHANGED outerVars

ContentText(i) ==
    /\ i \in 1..Len(fetching)
    /\ fetching[i].stage = "text"
    /\ SetDash(ContentExtracted(Dash, i, Page(fetching[i].url)))
    /\ UNCHANGED outerVars

\* Timers of one delay fire in the order they were set.
SettleFire ==
    /\ settling # <<>>
    /\ Head(settling).rem = 0
    /\ SetDash(StylesPublished(Dash))
    /\ UNCHANGED outerVars

PublishFire ==
    /\ publishing # <<>>
    /\ Head(publishing).rem = 0
    /\ SetDash(ContentPublished(Dash))
    /\ UNCHANGED outerVars

Elapse(q) == [k \in 1..Len(q) |-> [q[k] EXCEPT !.rem = @ - TickLen]]
NoneDue(q) == \A k \in 1..Len(q) : q[k].rem > 0

\* Time passes: no timer is due, and every pending timer comes TickLen nearer.
Tick ==
    /\ settling # <<>> \/ publishing # <<>>
    /\ NoneDue(settling) /\ NoneDue(publishing)
    /\ settling' = Elapse(settling)
    /\ publishing' = Elapse(publishing)
    /\ UNCHANGED <<outerVars, sidebarItems, mainContent, contentStyles, isLoading,
                   isContentLoading, error, fetching, sideLoads, recent, listeners>>

-----------------------------------------------------------------------------
\* fetchSidebar after its first await.

\* The finally block.
SidebarFinally(d, j) == [d EXCEPT !.isLoading = FALSE, !.sideLoads = Drop(@, j)]

SidebarStatusError(d, j, r) == SidebarFinally([d EXCEPT !.error = StatusMessage(r)], j)

SidebarCatch(d, j) ==
    SidebarFinally(
        [d EXCEPT !.error = "Failed to load dashboard content. Please try again."], j)

SidebarLoaded(d, j, html) ==
    SidebarFinally([d EXCEPT !.sidebarItems = extractSidebarItems(html)], j)

SidebarResponse(j) ==
    /\ j \in 1..Len(sideLoads)
    /\ sideLoads[j].stage = "fetch"
    /\ \E r \in Responses(sideLoads[j].url) :
          SetDash(IF r.ok THEN [Dash EXCEPT !.sideLoads[j].stage = "text"]
                  ELSE SidebarStatusError(Dash, j, r))
    /\ UNCHANGED outerVars

SidebarReject(j) ==
    /\ j \in 1..Len(sideLoads)
    /\ SetDash(SidebarCatch(Dash, j))
    /\ UNCHANGED outerVars

SidebarText(j) ==
    /\ j \in 1..Len(sideLoads)
    /\ sideLoads[j].stage = "text"
    /\ SetDash(SidebarLoaded(Dash, j, Page(sideLoads[j].url)))
    /\ UNCHANGED outerVars

-----------------------------------------------------------------------------
\* useAuthStore.login, SigninCard.handleSubmit.

\* The Login button: disabled while the card's own call is pending.
LoginSubmitUpTo(cap) ==
    /\ RouteElement(location, isAuthenticated) = "signin"
    /\ ~signinLoading
    /\ logins < cap
    /\ signinLoading' = TRUE
    /\ storeError' = Null
    /\ logins' = logins + 1
    /\ UNCHANGED <<isAuthenticated, user, homePage, token, logouts, location,
                   mounted, dashVars, listeners, probe>>

LoginSubmit == LoginSubmitUpTo(MaxLogins)

\* A pending call is the mounted card's own, or was made by a card since unmounted.
OwnLogin == IF signinLoading THEN 1 ELSE 0
Pending(own) == IF own THEN OwnLogin > 0 ELSE logins > OwnLogin

OrDefaultHome(hp) == IF hp = Null THEN DEFAULT_HOME ELSE hp

\* response.ok and message 'Logged In' or 'No App'; then navigate('/dashboard').
LoginSucceeded(own, home_page) ==
    /\ logins > 0 /\ Pending(own)
    /\ InFlight(Rendered(Loc(DASHBOARD), TRUE, OrDefaultHome(home_page), TOKEN))
          <= MaxSessionInFlight
    /\ logins' = logins - 1
    /\ isAuthenticated' = TRUE
    /\ user' = USER
    /\ homePage' = OrDefaultHome(home_page)
    /\ token' = TOKEN
    /\ storeError' = Null
    /\ location' = Loc(DASHBOARD)
    /\ Render(Loc(DASHBOARD), TRUE, OrDefaultHome(home_page), TOKEN)
    /\ UNCHANGED <<logouts, probe>>

OrLoginFailed(m) == IF m = Null THEN "Login failed" ELSE m

\* Variant: a failed login also clears the session.
LoginFailedClearsSession(own, message) ==
    /\ logins > 0 /\ Pending(own)
    /\ logins' = logins - 1
    /\ storeError' = message
    /\ signinLoading' = (signinLoading /\ ~own)
    /\ isAuthenticated' = FALSE
    /\ user' = Null
    /\ homePage' = Null
    /\ token' = Null
    /\ UNCHANGED <<logouts, location, mounted, dashVars, listeners, probe>>

\* Any other response, or a rejected fetch or response.json().
LoginFailed(own, message) ==
    /\ logins > 0 /\ Pending(own)
    /\ logins' = logins - 1
    /\ storeError' = message
    /\ signinLoading' = (signinLoading /\ ~own)
    /\ UNCHANGED <<isAuthenticated, user, homePage, token, logouts, location,
                   mounted, dashVars, listeners, probe>>

LoginOutcomes ==
    { OrLoginFailed(Null), OrLoginFailed("Invalid login credentials"),
      "Network error. Please try again." }

-----------------------------------------------------------------------------
\* useAuthStore.logout, DashboardPage.handleLogout.

LogoutClick ==
    /\ mounted
    /\ logouts < MaxLogouts
    /\ logouts' = logouts + 1
    /\ UNCHANGED <<isAuthenticated, user, homePage, token, storeError, logins,
                   location, signinLoading, mounted, dashVars, listeners, probe>>

\* The logout request ended (2xx, another status, or rejected: all ignored);
\* the session is cleared and handleLogout goes to /login.
LogoutOutcomes == {"ok", "status", "rejected"}

\* Variant: logout clears the session but for the token.
LogoutDoneKeepsToken(outcome) ==
    /\ logouts > 0
    /\ outcome \in LogoutOutcomes
    /\ logouts' = logouts - 1
    /\ isAuthenticated' = FALSE
    /\ user' = Null
    /\ homePage' = Null
    /\ storeError' = Null
    /\ location' = Loc(LOGIN)
    /\ Render(Loc(LOGIN), FALSE, Null, Null)
    /\ UNCHANGED <<token, logins, probe>>

LogoutDone(outcome) ==
    /\ logouts > 0
    /\ outcome \in LogoutOutcomes
    /\ logouts' = logouts - 1
    /\ isAuthenticated' = FALSE
    /\ user' = Null
    /\ homePage' = Null
    /\ token' = Null
    /\ storeError' = Null
    /\ location' = Loc(LOGIN)
    /\ Render(Loc(LOGIN), FALSE, Null, Null)
    /\ UNCHANGED <<logins, probe>>

-----------------------------------------------------------------------------
\* A URL object, as new URL(...) parses it.
Url(protocol, host, pathname, search, hash) ==
    [ protocol |-> protocol, host |-> host, pathname |-> pathname,
      search |-> search, hash |-> hash ]

\* URL.origin: scheme and host of an http(s) URL, "null" for an opaque one.
Origin(url) ==
    IF url.protocol \in {"http:", "https:"}
    THEN url.protocol \o "//" \o url.host ELSE "null"

\* new URL(API_BASE)
ApiBaseUrl == Url("https:", "gcdev.m.frappe.cloud", <<"/">>, "", "")

\* The origin the application itself is served from, against which the
\* browser resolves a root-relative href.
APP_ORIGIN == Url("http:", "localhost:5173", <<"/">>, "", "")

\* pathname.startsWith('/')
StartsWithSlash(t) == t # <<>> /\ Head(t) = "/"

isInternalLink(url) ==
    Origin(url) = Origin(ApiBaseUrl) \/ StartsWithSlash(url.pathname)

\* What a click in the fragment hits: no anchor, an anchor whose href does not
\* parse, or an anchor with its resolved URL.
NoAnchor == [kind |-> "none"]
BadAnchor == [kind |-> "invalid"]
AnchorTo(url) == [kind |-> "url", url |-> url]
ClickTargets ==
    { NoAnchor, BadAnchor,
      AnchorTo(Url("https:", "gcdev.m.frappe.cloud", <<"/", "a">>, "?q=1", "#top")),
      AnchorTo(Url("http:", "localhost:5173", <<"/", "dashboard">>, "", "")),
      AnchorTo(Url("https:", "example.org", <<"/", "docs">>, "?x=1", "#y")),
      AnchorTo(Url("mailto:", "", <<"help@example.org">>, "", "")) }

\* What handleContentClick did with the event.
Ignored(e) ==
    [ op |-> "click", target |-> e, defaultPrevented |-> FALSE,
      propagationStopped |-> FALSE, navigated |-> Null ]
Intercepted(e) ==
    [ op |-> "click", target |-> e, defaultPrevented |-> TRUE,
      propagationStopped |-> TRUE,
      navigated |-> Flat(e.url.pathname) \o e.url.search \o e.url.hash ]

\* The location the router makes of url.pathname + url.search + url.hash.
ClickLocation(url) ==
    [pathname |-> Flat(url.pathname), search |-> url.search, hash |-> url.hash]

\* handleContentClick, on a click the fragment's container receives.
\* (cap: the bound on pending content loads.)
ContentClick(e, cap) ==
    /\ mounted /\ ~isLoading /\ error = Null /\ mainContent # ""
    /\ listeners > 0
    /\ IF e.kind = "url" /\ isInternalLink(e.url)
       THEN /\ InFlight(Rendered(ClickLocation(e.url), isAuthenticated,
                                 homePage, token)) <= cap
            /\ probe' = Intercepted(e)
            /\ location' = ClickLocation(e.url)
            /\ Render(ClickLocation(e.url), isAuthenticated, homePage, token)
       ELSE /\ probe' = Ignored(e)
            /\ UNCHANGED <<location, signinLoading, mounted, dashVars, listeners>>
    /\ UNCHANGED storeVars

-----------------------------------------------------------------------------
\* Inputs of the helpers of index.tsx, and the calls of them.

\* Style sheets: a rule of one or two declarations, the last one with or
\* without its semicolon, alone or followed by another rule.
Decl(name, colon, value) == [name |-> name, colon |-> colon, value |-> value]
Declarations ==
    { Decl(<<"transform">>, <<":">>, <<"scale(", "2", ")">>),
      Decl(<<"transform">>, <<" ", ":", " ">>, <<"none">>),
      Decl(<<"TRANSFORM">>, <<":">>, <<"none">>),
      Decl(<<"-webkit-", "transform">>, <<":">>, <<"none">>),
      Decl(<<"zoom">>, <<":">>, <<"2">>),
      Decl(<<"text-", "transform">>, <<":">>, <<"uppercase">>),
      Decl(<<"color">>, <<":">>, <<"red">>),
      Decl(<<"margin">>, <<":">>, <<"0">>) }
StyleSheets ==
    [ decls : { <<d>> : d \in Declarations }
                 \cup { <<d, e>> : d \in Declarations, e \in Declarations },
      lastSemicolon : BOOLEAN,
      next : { <<>>, <<"p", "{", "color", ":", "red", ";", "}">> } ]

DeclText(d) == d.name \o d.colon \o d.value
\* The text of a style sheet, of its declarations from the k-th on.
RECURSIVE DeclsText(_, _)
DeclsText(sheet, k) ==
    IF k > Len(sheet.decls) THEN <<>>
    ELSE DeclText(sheet.decls[k])
            \o (IF k < Len(sheet.decls) \/ sheet.lastSemicolon THEN <<";">> ELSE <<>>)
            \o DeclsText(sheet, k + 1)
CssText(sheet) == <<"a", "{">> \o DeclsText(sheet, 1) \o <<"}">> \o sheet.next

\* URLs of resources as a document writes them: absolute, data:,
\* root-relative, relative, protocol-relative, empty.
UrlHeads ==
    { <<>>, <<"http", "://example.org">>, <<"http", "s://example.org">>,
      <<"http", "s://gcdev.m.frappe.cloud">>, <<"data:", "image/png;base64,">>,
      <<"/">>, <<"/", "/", "cdn.example.org">>, <<"files">>, <<"http", "-icons">>,
      <<".", ".">> }
UrlTails == { <<>>, <<"/">>, <<"/", "a.png">>, <<"a.png">>, <<"/", "a", "/", "b.css">> }
ResourceUrls == { h \o t : h \in UrlHeads, t \in UrlTails }

\* Paths of routes and of navigation entries: non-empty, starting with "/".
MaxPathLen == 4
RECURSIVE PathsOfLen(_)
PathsOfLen(n) ==
    IF n = 1 THEN { <<"/">> }
    ELSE { p \o <<c>> : p \in PathsOfLen(n - 1), c \in {"/", "a"} }
Paths == UNION { PathsOfLen(n) : n \in 1..MaxPathLen }

CallSanitizeStyles(sheet) ==
    /\ probe = NoProbe
    /\ probe' = [op |-> "sanitizeStyles", sheet |-> sheet,
                 out |-> Flat(sanitizeStyles(CssText(sheet)))]
    /\ UNCHANGED programVars

\* Navigation regions: up to MaxAnchors anchors, duplicates among them.
MaxAnchors == 2
NavHrefs ==
    { <<>>, <<"/", "a">>, <<"/", "newsletter", "s", "/", "1">>,
      <<"/", "newsletter", "/", "archive">>, <<"/", "Newsletter", "s">> }
NavTexts ==
    { <<>>, <<" ">>, <<" ", "A", " ">>, <<"Newsletter">>,
      <<"Weekly ", "NEWSLETTER">>, <<"Updates">> }
NavAnchors == { Anchor(h, t) : h \in NavHrefs, t \in NavTexts }
RECURSIVE NavsOfLen(_)
NavsOfLen(n) ==
    IF n = 0 THEN { <<>> }
    ELSE { nav \o <<a>> : nav \in NavsOfLen(n - 1), a \in NavAnchors }
Navs == UNION { NavsOfLen(n) : n \in 0..MaxAnchors }

CallExtractSidebarItems(nav) ==
    /\ probe = NoProbe
    /\ probe' = [op |-> "extractSidebarItems", nav |-> nav,
                 out |-> extractSidebarItems([Page("") EXCEPT !.nav = nav])]
    /\ UNCHANGED programVars

\* Documents given to the extraction: none to two <style> blocks and stylesheet
\* links (one without href), up to MaxElements elements in the main subtree (scripts, images,
\* elements with a style attribute among them), parsed or failing.
MaxElements == 2
StyleBlockLists ==
    { <<>>,
      << <<"body{background:", "url(", "/", "files/bg.png", ")", "}">> >>,
      << <<"h1{zoom:2;}">>,
         <<"body{background:", "url(", "'", "http", "s://cdn.example.org/bg.png", "'", ")", "}">> >> }
LinkLists ==
    { <<>>, << <<"assets/site.css">> >>,
      << <<"http", "s://cdn.example.org/site.css">>, <<>> >> }
ContentElements ==
    { Element("h1", <<>>, <<>>, "Title"),
      Element("script", <<>>, <<>>, "alert(1)"),
      Element("img", <<"files", "/", "a.png">>, <<>>, ""),
      Element("div", <<>>, <<"background:", "url(", "'", "/", "files/bg.png", "'", ")">>, "x"),
      Element("div", <<>>, <<"background:", "url(", "http", "://example.org/bg.png", ")">>, "y") }
RECURSIVE ElementsOfLen(_)
ElementsOfLen(n) ==
    IF n = 0 THEN { <<>> }
    ELSE { es \o <<e>> : es \in ElementsOfLen(n - 1), e \in ContentElements }
ContentLists == UNION { ElementsOfLen(n) : n \in 0..MaxElements }
InputDocuments ==
    { [fails |-> f, styles |-> bs, links |-> hs, main |-> es, nav |-> <<>>] :
        f \in BOOLEAN, bs \in StyleBlockLists, hs \in LinkLists, es \in ContentLists }

CallExtractStylesAndContent(html) ==
    /\ probe = NoProbe
    /\ probe' = [op |-> "extractStylesAndContent", html |-> html,
                 content |-> ExtractedPieces(html).content,
                 styles |-> ExtractedPieces(html).styles,
                 out |-> extractStylesAndContent(html)]
    /\ UNCHANGED programVars

\* A helper is called, and the call is observed (one call in a behaviour).
CallFixRelativeUrl(url) ==
    /\ probe = NoProbe
    /\ probe' = [op |-> "fixRelativeUrl", url |-> url,
                 out |-> Flat(fixRelativeUrl(url)),
                 twice |-> Flat(fixRelativeUrl(fixRelativeUrl(url)))]
    /\ UNCHANGED programVars

CallMatchesPath(linkPath, currentPath) ==
    /\ probe = NoProbe
    /\ probe' = [op |-> "matchesPath", link |-> linkPath, current |-> currentPath,
                 out |-> matchesPath(linkPath, currentPath)]
    /\ UNCHANGED programVars

\* The view DashboardPage renders: "Loading..." while isLoading, else the
\* error, else the layout, with the content overlay while isContentLoading.
LoadState ==
    IF ~mounted THEN "Idle"
    ELSE IF isLoading THEN "LoadingSidebar"
    ELSE IF error # Null THEN "Error"
    ELSE IF isContentLoading THEN "LoadingContent"
    ELSE "Ready"

-----------------------------------------------------------------------------
\* The controller: the steps of DashboardPage and of the router.
Controller(cap) ==
    \/ \E l \in UserLocations : Navigate(l, cap)
    \/ Redirect
    \/ \E i \in 1..Len(fetching) : ContentResponse(i)
    \/ \E i \in 1..Len(fetching) : ContentReject(i)
    \/ \E i \in 1..Len(fetching) : ContentText(i)
    \/ SettleFire
    \/ PublishFire
    \/ Tick
    \/ \E j \in 1..Len(sideLoads) : SidebarResponse(j)
    \/ \E j \in 1..Len(sideLoads) : SidebarReject(j)
    \/ \E j \in 1..Len(sideLoads) : SidebarText(j)

\* The session: the steps of useAuthStore, SigninCard and handleLogout.
Session ==
    \/ LoginSubmit
    \/ \E own \in BOOLEAN, hp \in BackendHomePages : LoginSucceeded(own, hp)
    \/ \E own \in BOOLEAN, m \in LoginOutcomes : LoginFailed(own, m)
    \/ LogoutClick
    \/ \E o \in LogoutOutcomes : LogoutDone(o)

\* The page under every session the store may hold, the session left alone.
Next == Controller(MaxInFlight)
Spec == Init /\ [][Next]_vars

\* The page with the clicks on its fragment.
ClickNext ==
    \/ Controller(MaxSessionInFlight)
    \/ \E e \in ClickTargets : ContentClick(e, MaxSessionInFlight)
ClickSpec == Init /\ [][ClickNext]_vars

\* The helpers, called on the inputs of the model.
HelperNext ==
    \/ probe = NoProbe /\ \E url \in ResourceUrls : CallFixRelativeUrl(url)
    \/ probe = NoProbe /\ \E l \in Paths, c \in Paths : CallMatchesPath(l, c)
    \/ probe = NoProbe /\ \E sheet \in StyleSheets : CallSanitizeStyles(sheet)
    \/ probe = NoProbe /\ \E nav \in Navs : CallExtractSidebarItems(nav)
    \/ probe = NoProbe /\ \E html \in InputDocuments : CallExtractStylesAndContent(html)
HelperSpec == Init /\ [][HelperNext]_vars

\* The page when every fetch that was issued is answered or rejects, every
\* response that is read yields its text, every timer that was set fires, and
\* a pending redirect of the router is carried out.
FetchSettles ==
    \E i \in 1..Len(fetching) : ContentResponse(i) \/ ContentReject(i) \/ ContentText(i)
SidebarSettles ==
    \E j \in 1..Len(sideLoads) : SidebarResponse(j) \/ SidebarReject(j) \/ SidebarText(j)
TimerFires == SettleFire \/ PublishFire \/ Tick
LiveSpec ==
    /\ Init /\ [][Controller(MaxSessionInFlight)]_vars
    /\ WF_vars(Redirect)
    /\ WF_vars(FetchSettles)
    /\ WF_vars(SidebarSettles)
    /\ WF_vars(TimerFires)

\* The whole program.
SessionNext == Controller(MaxSessionInFlight) \/ Session
SessionSpec == Init /\ [][SessionNext]_vars

\* The store from its construction (nobody logged in, nothing in storage), the
\* router and the sign-in card, with up to MaxStoreLogins login calls pending
\* at a time; the answers to the fetches of the page, which set no field of
\* the store, are left out.
MaxStoreLogins == 2
StoreInit == Init /\ ~isAuthenticated
StoreNext ==
    \/ \E l \in UserLocations : Navigate(l, MaxSessionInFlight)
    \/ Redirect
    \/ LoginSubmitUpTo(MaxStoreLogins)
    \/ \E own \in BOOLEAN, hp \in BackendHomePages : LoginSucceeded(own, hp)
    \/ \E own \in BOOLEAN, m \in LoginOutcomes : LoginFailed(own, m)
    \/ LogoutClick
    \/ \E o \in LogoutOutcomes : LogoutDone(o)
StoreSpec == StoreInit /\ [][StoreNext]_vars

-----------------------------------------------------------------------------
\* Properties.

\* Every pending content call has ended: resolved, and its timers fired.
AllSettled == mounted /\ fetching = <<>> /\ settling = <<>> /\ publishing = <<>>

\* C1: once every issued content fetch has resolved and every timer has
\* fired, the published content and styles are those returned by the fetch of
\* the most recent route change, whatever the order of the responses.
C1_LatestRouteWins ==
    (AllSettled /\ recent.state = "ok")
        => /\ mainContent = recent.fragment.content
           /\ contentStyles = recent.fragment.styles

\* A step in which a superseded content call goes on: its fetch ends (with a
\* body, a status outside 2xx or a rejection), or one of its timers fires.
SupersededFetchEnds ==
    \E i \in 1..Len(fetching) :
        ~fetching[i].latest /\ fetching' = Drop(fetching, i)
SupersededSettleFires ==
    /\ settling # <<>> /\ ~Head(settling).latest
    /\ settling' = Tail(settling)
    /\ Len(publishing') = Len(publishing) + 1
SupersededPublishFires ==
    /\ publishing # <<>> /\ ~Head(publishing).latest
    /\ publishing' = Tail(publishing)
    /\ settling' = settling
SupersededStep ==
    /\ mounted /\ mounted'
    /\ SupersededFetchEnds \/ SupersededSettleFires \/ SupersededPublishFires

\* C2: the result of a superseded content fetch (success, status outside 2xx
\* or rejection) changes none of the published content, the published
\* styles, the error and the content-loading flag.
C2_SupersededDiscarded ==
    [][SupersededStep =>
          UNCHANGED <<mainContent, contentStyles, error, isContentLoading>>]_vars

\* C3: a route change with no token issues no fetch and leaves the Load State
\* as it was, at every route and from every state: the page stays as its
\* mount without a token left it, in Error with nothing pending.
C3_NoTokenNoLoad ==
    /\ [][(mounted /\ mounted' /\ token = Null /\ token' = Null
              /\ location' # location) => UNCHANGED dashVars]_vars
    /\ [](mounted /\ token = Null =>
            /\ fetching = <<>> /\ settling = <<>> /\ publishing = <<>>
            /\ sideLoads = <<>>
            /\ LoadState = "Error"
            /\ error = IF homePage = Null THEN "No home page configured"
                       ELSE "No authentication token available")

\* C3, witness: a page without a token at a route only a route change leads to.
C3_Witness ==
    /\ mounted /\ token = Null
    /\ location = [pathname |-> "/a", search |-> "?q=1", hash |-> "#top"]
    /\ LoadState = "Error"

\* A sidebar load ended in this step, with the items set or without.
SidebarSuccessStep == mounted /\ mounted' /\ sidebarItems' # sidebarItems
SidebarFailureStep ==
    /\ mounted /\ mounted'
    /\ Len(sideLoads') < Len(sideLoads)
    /\ sidebarItems' = sidebarItems

\* C4: on mount without a token or a home path the page goes to Error with a
\* non-empty message and issues no sidebar fetch; otherwise it issues exactly
\* one sidebar fetch, ends in Ready on a 2xx response and in Error on another
\* status or a rejection; the sidebar-loading flag ends cleared in every case.
C4_MountOutcome ==
    [][/\ (~mounted /\ mounted' /\ (token' = Null \/ homePage' = Null))
            => /\ LoadState' = "Error"
               /\ error' \notin {Null, ""}
               /\ sideLoads' = <<>>
       /\ (~mounted /\ mounted' /\ token' # Null /\ homePage' # Null)
            => sideLoads' = <<[stage |-> "fetch", url |-> API_BASE \o homePage']>>
       /\ SidebarSuccessStep => LoadState' = "Ready"
       /\ SidebarFailureStep => LoadState' = "Error"
       /\ (SidebarSuccessStep \/ SidebarFailureStep) => ~isLoading'
      ]_vars

\* The route-change effect runs: on mount, and when the location or the token
\* of a mounted page changes.
RouteEffectRuns ==
    mounted' /\ (~mounted \/ location' # location \/ token' # token)

\* No content fetch is started in this step.
NoFetchStarted ==
    \/ ~mounted' /\ fetching' = <<>>
    \/ fetching' = fetching
    \/ \E i \in 1..Len(fetching) :
          \/ fetching' = Drop(fetching, i)
          \/ fetching' = [fetching EXCEPT ![i].stage = "text"]

\* C5: with a token, each run of the route-change effect at a route other
\* than root and login starts exactly one content fetch, for the route's
\* path, query and fragment on the backend; no other step starts one (a
\* failure is not retried, a change to a skip route fetches nothing).
C5_OneFetchPerRouteChange ==
    [][IF /\ RouteEffectRuns
          /\ token' # Null
          /\ location'.pathname \notin {"/", "/login"}
       THEN fetching' =
              Append(Superseded(IF mounted THEN fetching ELSE <<>>),
                     [url |-> "https://gcdev.m.frappe.cloud" \o location'.pathname
                                 \o location'.search \o location'.hash,
                      stage |-> "fetch", latest |-> TRUE])
       ELSE NoFetchStarted]_vars

\* C5, witness: the fetch of the route change to /a?q=1#top failed, and
\* nothing is pending in its place.
C5_Witness ==
    /\ AllSettled /\ token # Null
    /\ location = [pathname |-> "/a", search |-> "?q=1", hash |-> "#top"]
    /\ recent.state = "failed"
    /\ error = "Failed to load page: 404 Not Found"

\* A content fetch failed in this step: its call ended without a timer set.
ContentFailureStep ==
    /\ mounted /\ mounted'
    /\ \E i \in 1..Len(fetching) : fetching' = Drop(fetching, i)
    /\ settling' = settling /\ publishing' = publishing

\* C6: a content fetch that fails (status outside 2xx, or rejection) leaves
\* the page in Error with a message, the status code and text in it for a
\* status outside 2xx, clears the content-loading flag and leaves the
\* published content and styles as they were.
C6_ContentFailure ==
    [][ContentFailureStep =>
          /\ error' \in { "Failed to load page: 404 Not Found",
                          "Failed to load page: 403 Forbidden",
                          "Failed to load page content. Please try again." }
          /\ ~isContentLoading'
          /\ LoadState' \in {"Error", "LoadingSidebar"}
          /\ mainContent' = mainContent
          /\ contentStyles' = contentStyles]_vars

\* C6, witness: the latest content fetch was refused while a fragment loaded
\* before it is still published.
C6_Witness ==
    /\ mounted /\ sidebarItems # <<>>
    /\ recent.state = "failed"
    /\ error = "Failed to load page: 403 Forbidden"
    /\ ~isContentLoading
    /\ mainContent # "" /\ contentStyles # ""

\* C7, as stated: no content load is in progress while the
\* sidebar load is still in progress.
C7_ContentOnlyFromReady ==
    ~(mounted /\ sideLoads # <<>>
        /\ (fetching # <<>> \/ settling # <<>> \/ publishing # <<>>))

\* C7, amended: the Load State is always one of the five, and the two loads
\* go on independently of each other (both start on mount): the
\* sidebar-loading flag is set exactly while a sidebar fetch is pending, the
\* content-loading flag only while a content call is pending.
C7_LoadStateTracksLoads ==
    /\ LoadState \in {"Idle", "LoadingSidebar", "LoadingContent", "Error", "Ready"}
    /\ ~mounted => LoadState = "Idle"
    /\ mounted =>
          /\ isLoading <=> sideLoads # <<>>
          /\ isContentLoading =>
                (fetching # <<>> \/ settling # <<>> \/ publishing # <<>>)

\* C7, witness: the sidebar load and a content load in progress together.
C7_Witness ==
    /\ mounted /\ isLoading /\ isContentLoading
    /\ sideLoads # <<>> /\ fetching # <<>>

\* C8: when logout completes, whatever the request's outcome, the session is
\* cleared (isAuthenticated false, token, user and homePage null), the route
\* is /login and the dashboard is not rendered; and while no one is
\* authenticated the dashboard stays unrendered with no fetch pending, until
\* a login succeeds.
C8_LogoutClears ==
    /\ [][logouts' < logouts =>
            /\ ~isAuthenticated'
            /\ token' = Null /\ user' = Null /\ homePage' = Null
            /\ location' = [pathname |-> "/login", search |-> "", hash |-> ""]
            /\ ~mounted']_vars
    /\ [](~isAuthenticated =>
            /\ ~mounted
            /\ fetching = <<>> /\ settling = <<>> /\ publishing = <<>>
            /\ sideLoads = <<>>)
    /\ [][(~isAuthenticated /\ isAuthenticated') =>
            (logins' = logins - 1 /\ token' # Null)]_vars

\* C8, witness: nobody is authenticated while a second logout is still
\* pending, so a first one has completed.
C8_Witness ==
    /\ ~isAuthenticated /\ logouts = 1
    /\ token = Null /\ user = Null /\ homePage = Null
    /\ location = [pathname |-> "/login", search |-> "", hash |-> ""]
    /\ ~mounted

\* C9: while the fetch of the latest route change is unresolved, the
\* content-loading flag is set, whatever else completes meanwhile.
C9_LoadingWhileLatestPending ==
    (mounted /\ \E i \in 1..Len(fetching) : fetching[i].latest)
        => isContentLoading

\* The documents of the backend.
Documents ==
    { Page(API_BASE \o CurrentPath(l)) : l \in UserLocations \cup {Loc(DEFAULT_HOME)} }

\* C10: whenever the content-loading flag is clear, the published content
\* and the published styles come from the same document (or nothing has been
\* published yet).
C10_SameDocument ==
    (mounted /\ ~isContentLoading) =>
        \/ mainContent = "" /\ contentStyles = ""
        \/ \E doc \in Documents :
              /\ mainContent = extractStylesAndContent(doc).content
              /\ contentStyles = extractStylesAndContent(doc).styles

\* C11: the list of navigation entries of a mounted page is written only by a
\* successful sidebar fetch, which replaces it as a whole; no step of a
\* content load (start, response, failure, timers) and no route change
\* changes it.
C11_SidebarWrittenBySidebarFetch ==
    [][(mounted /\ mounted' /\ sidebarItems' # sidebarItems) =>
          /\ \E j \in 1..Len(sideLoads) :
                sideLoads[j].stage = "text" /\ sideLoads' = Drop(sideLoads, j)
          /\ sidebarItems' =
                << [href |-> "/a?q=1#top", text |-> "A", isActive |-> FALSE],
                   [href |-> "/dashboard", text |-> "Dashboard", isActive |-> FALSE] >>
          /\ location' = location
          /\ fetching' = fetching /\ settling' = settling
          /\ publishing' = publishing]_vars

\* C11, witness: the entries of the sidebar fetch are still there after a
\* route change and the publication of its fragment.
C11_Witness ==
    /\ mounted /\ Len(sidebarItems) = 2
    /\ location = [pathname |-> "/a", search |-> "?q=1", hash |-> "#top"]
    /\ mainContent = "<h1>https://gcdev.m.frappe.cloud/a?q=1#top</h1>"

\* C12: a click on an anchor of the fragment is intercepted (default
\* prevented, propagation stopped, route change to path, query and fragment)
\* exactly when its resolved URL is the backend's or comes from a
\* root-relative href, which resolves to the application's own origin; a click
\* on an anchor of any other origin is not intercepted and changes no route.
C12_InterceptsOnlyInternal ==
    [][(probe' # probe /\ probe'.op = "click") =>
          IF /\ probe'.target.kind = "url"
             /\ Origin(probe'.target.url) \in
                    {"https://gcdev.m.frappe.cloud", "http://localhost:5173"}
          THEN /\ probe'.defaultPrevented /\ probe'.propagationStopped
               /\ location' = [pathname |-> Flat(probe'.target.url.pathname),
                               search |-> probe'.target.url.search,
                               hash |-> probe'.target.url.hash]
          ELSE /\ ~probe'.defaultPrevented /\ ~probe'.propagationStopped
               /\ location' = location]_vars

C16_MatchesUpToTrailingSlash ==
    probe.op = "matchesPath" =>
        (probe.out <=>
            \/ probe.link = probe.current
            \/ probe.link # <<"/">> /\ Last(probe.link) = "/"
                  /\ ButLast(probe.link) = probe.current
            \/ probe.current # <<"/">> /\ Last(probe.current) = "/"
                  /\ ButLast(probe.current) = probe.link)

\* C16, witness: an entry's href with a trailing slash matches the route
\* without it.
C16_Witness ==
    /\ probe.op = "matchesPath"
    /\ probe.link = <<"/", "a", "/">> /\ probe.current = <<"/", "a">>
    /\ probe.out

\* The declarations the sanitizer is to remove: transform, a vendor-prefixed
\* transform, zoom, the name taken whole and in any letter case.
Destabilizing(d) ==
    Flat(d.name) \in { "transform", "TRANSFORM", "-webkit-transform",
                       "-moz-transform", "-ms-transform", "-o-transform",
                       "zoom", "ZOOM" }

\* A style sheet without its destabilizing declarations, every other
\* declaration (with its semicolon) and every following rule as they were.
RECURSIVE KeptDeclsText(_, _)
KeptDeclsText(sheet, k) ==
    IF k > Len(sheet.decls) THEN ""
    ELSE (IF Destabilizing(sheet.decls[k]) THEN ""
          ELSE Flat(sheet.decls[k].name) \o Flat(sheet.decls[k].colon)
                  \o Flat(sheet.decls[k].value)
                  \o (IF k < Len(sheet.decls) \/ sheet.lastSemicolon
                      THEN ";" ELSE ""))
         \o KeptDeclsText(sheet, k + 1)

\* C18: the style sanitizer removes only the declarations of transform, of a
\* vendor-prefixed transform and of zoom; a declaration of another property
\* whose name contains one of these names (text-transform), and whatever
\* follows a removed declaration, is in the output unchanged.
C18_SanitizerRemovesOnlyNamed ==
    probe.op = "sanitizeStyles"
        => probe.out = "a{" \o KeptDeclsText(probe.sheet, 1) \o "}"
                          \o Flat(probe.sheet.next)

\* A text that contains "newsletter" in some letter case.
MentionsNewsletter(t) ==
    \E k \in 1..Len(t) : t[k] \in {"newsletter", "Newsletter", "NEWSLETTER"}

\* An anchor the navigation list is to show.
Listed(a) ==
    /\ a.href # <<>> /\ Trim(a.text) # <<>>
    /\ ~MentionsNewsletter(a.text) /\ ~MentionsNewsletter(a.href)

\* C17: the list returned by navigation extraction has no entry whose text or
\* href contains "newsletter" in any letter case; the other anchors with an
\* href and a non-empty trimmed text are all there, in document order,
\* duplicates included.
C17_NoNewsletterEntries ==
    probe.op = "extractSidebarItems" =>
        LET listed == SelectSeq(probe.nav, Listed)
        IN  probe.out =
              [i \in 1..Len(listed) |->
                  [href |-> Flat(listed[i].href),
                   text |-> Flat(Trim(listed[i].text)),
                   isActive |-> listed[i].active]]

\* C13: the content returned by the extraction holds no script element,
\* whatever the document held and whether or not the extraction failed.
C13_NoScriptInContent ==
    probe.op = "extractStylesAndContent"
        => \A k \in 1..Len(probe.content) : probe.content[k] # "<script"

\* A url( of the text t at position k names an http(s) or a data: URL.
AbsoluteUrlAt(t, k) ==
    LET j == UrlStart(t, k)
    IN  j <= Len(t) /\ t[j] \in {"http", "data:"}

\* Position k of the markup t lies inside the value of a style attribute.
InStyleAttribute(t, k) ==
    \E a \in 1..(k - 1) :
        t[a] = " style=\"" /\ \A b \in (a + 1)..k : t[b] # "\""

\* C14: every url(...) in a style attribute of the returned content and every
\* url(...) in the returned styles (the <style> bodies and the @import rules)
\* is an http(s) or a data: URL.
C14_UrlsAbsolute ==
    probe.op = "extractStylesAndContent"
        => /\ \A k \in 1..Len(probe.styles) :
                probe.styles[k] = "url(" => AbsoluteUrlAt(probe.styles, k)
           /\ \A k \in 1..Len(probe.content) :
                probe.content[k] = "url(" /\ InStyleAttribute(probe.content, k)
                    => AbsoluteUrlAt(probe.content, k)

\* The steps of a content load after its document was read: the first timer
\* fires, the second timer fires.
StylesPublishStep ==
    /\ mounted /\ mounted'
    /\ settling # <<>> /\ settling' = Tail(settling)
    /\ Len(publishing') = Len(publishing) + 1
ContentPublishStep ==
    /\ mounted /\ mounted'
    /\ publishing # <<>> /\ publishing' = Tail(publishing)
    /\ settling' = settling

\* C19: a successful content load publishes its styles in one step and its
\* content in a later one; the content-loading flag is cleared in the step
\* that publishes the content and is still set while a load that read its
\* document waits for one of its two timers; a load waits nowhere but for the
\* fetch, for the text of the response and for the two timers.
C19_StylesThenContent ==
    /\ [][StylesPublishStep =>
            /\ contentStyles' = Head(settling).fragment.styles
            /\ UNCHANGED <<mainContent, isContentLoading>>]_vars
    /\ [][ContentPublishStep =>
            /\ mainContent' = Head(publishing).fragment.content
            /\ ~isContentLoading'
            /\ UNCHANGED contentStyles]_vars
    /\ [](mounted /\ (settling # <<>> \/ publishing # <<>>) => isContentLoading)
    /\ [](\A i \in 1..Len(fetching) : fetching[i].stage \in {"fetch", "text"})

\* Neither loading flag of a mounted page is set.
Quiet == mounted => ~isLoading /\ ~isContentLoading
RouteOrSessionChange ==
    location' # location \/ token' # token \/ homePage' # homePage

C22_SessionConsistent ==
    /\ isAuthenticated <=> token # Null
    /\ isAuthenticated => homePage # Null /\ user # Null

\* C22, witness: a login made somebody authenticated, with the token, the
\* user and the default home page, and a logout is pending.
C22_Witness ==
    /\ isAuthenticated /\ token = "b5a11fd3272c41d:b107017770524e7"
    /\ user = "m@example.com" /\ homePage = "/me"
    /\ logouts = 1

\* A login call ends; it ends as a success: the session is set, the error is
\* cleared and the card goes to /dashboard.
LoginEnds == logins' = logins - 1
LoginSuccessStep ==
    /\ isAuthenticated' /\ token' # Null /\ user' # Null /\ homePage' # Null
    /\ storeError' = Null
    /\ location' = [pathname |-> "/dashboard", search |-> "", hash |-> ""]

\* C23: a login that is rejected or fails with a network error sets the error
\* and nothing else of the store (isAuthenticated, user, homePage and token
\* keep their values), and the card does not go to the dashboard (success is
\* false); every login that ends otherwise is a success.
C23_FailedLoginOnlyError ==
    /\ [][LoginEnds /\ storeError' # Null =>
            /\ isAuthenticated' = isAuthenticated /\ user' = user
            /\ homePage' = homePage /\ token' = token
            /\ storeError' \in {"Login failed", "Invalid login credentials",
                                "Network error. Please try again."}
            /\ location' = location]_vars
    /\ [][LoginEnds => storeError' # Null \/ LoginSuccessStep]_vars

\* C23, witness: a login failed by a network error while somebody was
\* authenticated, and the session is still there.
C23_Witness ==
    /\ storeError = "Network error. Please try again."
    /\ isAuthenticated /\ token = "b5a11fd3272c41d:b107017770524e7"
    /\ user = "m@example.com" /\ homePage = "/me"

\* C21: whenever the content fragment is mounted in the view, exactly one
\* click listener is on its container, after any loads, errors and recoveries.
C21_OneInterceptor ==
    mounted /\ Container(Dash) => listeners = 1
====
